---- MODULE Spec2Model ----
(***************************************************************************)
(* A model of the go-pcre binding (src/pcre.go): the Regexp life cycle     *)
(* (Compile, Study, FreeRegexp, finalizer), the Matcher (Init, Match,      *)
(* Exec, the accessors) and the convenience loops ReplaceAll and FindAll.  *)
(* The PCRE library itself is an external collaborator: pcre_compile,      *)
(* pcre_study, pcre_exec, pcre_fullinfo and pcre_free are modelled by      *)
(* their documented contract over a small family of patterns.              *)
(***************************************************************************)
EXTENDS Integers, Sequences, FiniteSets, TLC

\* ------------------------------------------------------------- bounds
\* Longest subject handed to a Matcher.
MaxSubjLen == 2
\* Longest subject handed to ReplaceAll and FindAll.
MaxLoopLen == 4
\* Longest replacement handed to ReplaceAll.
MaxReplLen == 1

\* ---------------------------------------------------- program constants
ERROR_NOMATCH == -1
ERROR_BADOPTION == -3
ERROR_NOSUBSTRING == -7
ERROR_MATCHLIMIT == -8
ERROR_PARTIAL == -12
STUDY_JIT_COMPILE == 1

\* ------------------------------------------------------------ utilities
Alphabet == {"a", "b"}

\* The sequences over the alphabet of length at most n.
SeqsUpTo(n) == UNION {[1..k -> Alphabet] : k \in 0..n}

Subjects == SeqsUpTo(MaxSubjLen)

\* Go's s[lo:hi] on a slice or string of length Len(s), 0-based, hi exclusive.
SliceOK(s, lo, hi) == 0 <= lo /\ lo <= hi /\ hi <= Len(s)
Slice(s, lo, hi) == SubSeq(s, lo + 1, hi)

Zeros(n) == [i \in 1..n |-> 0]

\* ---------------------------------------------------------- the engine
\* The patterns the program compiles.  BadPattern is rejected by
\* pcre_compile; NulPattern holds an embedded NUL byte.
PatB == "b"
PatAStar == "a*"
PatOpt == "(a)(b)?"
PatLook == "(?=b)"
PatNamed == "(?P<x>a)"
BadPattern == "("
NulPattern == "a\\0"
ValidPatterns == {PatB, PatAStar, PatOpt, PatLook, PatNamed}
AllPatterns == ValidPatterns \cup {BadPattern, NulPattern}

\* pcre_fullinfo(PCRE_INFO_CAPTURECOUNT) of a compiled pattern.
CaptureCount(pat) ==
    IF pat = PatOpt THEN 2 ELSE IF pat = PatNamed THEN 1 ELSE 0

\* pcre_get_stringnumber of a compiled pattern: the number of the group
\* of that name, or the no-substring code.
GroupNames == {"x", "y"}
pcre_get_stringnumber(pat, name) ==
    IF pat = PatNamed /\ name = "x" THEN 1 ELSE ERROR_NOSUBSTRING

\* 1-based position of the first c in s, 0 when there is none.
FirstIndex(s, c) ==
    IF \E i \in 1..Len(s) : s[i] = c
    THEN CHOOSE i \in 1..Len(s) : s[i] = c /\ \A j \in 1..(i - 1) : s[j] # c
    ELSE 0

\* Number of leading c in s.
RunLen(s, c) ==
    IF \A i \in 1..Len(s) : s[i] = c THEN Len(s)
    ELSE (CHOOSE i \in 1..Len(s) : s[i] # c /\ \A j \in 1..(i - 1) : s[j] = c) - 1

NoMatchResult == [rc |-> ERROR_NOMATCH, caps |-> <<>>]

\* The leftmost match of pat in s, given the 1-based positions a and b of
\* the first "a" and the first "b" (0: none) and the number run of leading
\* "a": the result code (highest set group + 1) and the offset pairs, group
\* 0 first; an unset group is (-1, -1).
MatchAt(pat, s, a, b, run) ==
    CASE pat = PatB ->
           IF b = 0 THEN NoMatchResult
           ELSE [rc |-> 1, caps |-> <<b - 1, b>>]
      [] pat = PatAStar ->
           [rc |-> 1, caps |-> <<0, run>>]
      [] pat = PatLook ->
           IF b = 0 THEN NoMatchResult
           ELSE [rc |-> 1, caps |-> <<b - 1, b - 1>>]
      [] pat = PatOpt ->
           IF a = 0 THEN NoMatchResult
           ELSE IF a < Len(s) /\ s[a + 1] = "b"
                THEN [rc |-> 3, caps |-> <<a - 1, a + 1, a - 1, a, a, a + 1>>]
                ELSE [rc |-> 2, caps |-> <<a - 1, a, a - 1, a, -1, -1>>]
      [] pat = PatNamed ->
           IF a = 0 THEN NoMatchResult
           ELSE [rc |-> 2, caps |-> <<a - 1, a, a - 1, a>>]
      [] OTHER -> NoMatchResult

PatternMatch(pat, s) ==
    MatchAt(pat, s, FirstIndex(s, "a"), FirstIndex(s, "b"), RunLen(s, "a"))

\* The option words handed to Match and Exec.  The engine's answer is a
\* function of (pattern, subject, flags): word 0 runs the pattern; a word
\* k > 0 stands for any call on which pcre_exec answers with code -k
\* (k = 3 an invalid option bit, k = 12 partial matching at the end of a
\* non-empty subject, k = 8 a match limit, which the engine exceeds on the
\* subjects that begin with "a" and keeps on the others).
Flags == {0, -ERROR_BADOPTION, -ERROR_MATCHLIMIT, -ERROR_PARTIAL}

EngineResult(pat, s, flags) ==
    IF flags = 0 THEN PatternMatch(pat, s)
    ELSE IF -flags = ERROR_PARTIAL
         THEN IF Len(s) = 0 THEN NoMatchResult
              ELSE [rc |-> ERROR_PARTIAL, caps |-> <<0, Len(s)>>]
    ELSE IF -flags = ERROR_MATCHLIMIT /\ (Len(s) = 0 \/ s[1] # "a")
         THEN PatternMatch(pat, s)
    ELSE [rc |-> -flags, caps |-> <<>>]

\* An engine that resumes where the match held by the vector ended, and
\* finds nothing there.
WriteOvectorResumed(res, ovector) ==
    IF Len(ovector) >= 2 /\ ovector[2] > 0
    THEN [rc |-> ERROR_NOMATCH, ovector |-> ovector]
    ELSE [rc |-> res.rc,
          ovector |-> [i \in 1..Len(ovector) |->
                          IF i <= Len(res.caps) THEN res.caps[i] ELSE ovector[i]]]

\* The offset vector after the engine has reported res: only the slots of
\* the pairs reported are written, within the first two thirds of the
\* vector; a vector too short for the pairs makes the code 0.
WriteOvector(res, ovector) ==
    [rc |-> IF res.rc > 0 /\ Len(res.caps) > 2 * (Len(ovector) \div 3)
            THEN 0 ELSE res.rc,
     ovector |-> [i \in 1..Len(ovector) |->
                     IF i <= Len(res.caps) /\ i <= 2 * (Len(ovector) \div 3)
                     THEN res.caps[i] ELSE ovector[i]]]

\* pcre_exec: the result code and the offset vector it leaves.
pcre_exec(pat, s, flags, ovector) ==
    WriteOvector(EngineResult(pat, s, flags), ovector)

\* ------------------------------------------------------------- state
VARIABLES
    regexps,    \* the Regexp objects: ptr, extra, finalizer, liveness
    heap,       \* the engine's allocations, one per native handle
    matchers,   \* the Matcher objects
    ra,         \* the running ReplaceAll call, if any
    fa,         \* the running FindAll call, if any
    threads,    \* per thread: the Matcher call it is in the middle of, if any
    last        \* what the last call returned and which engine calls it made

vars == <<regexps, heap, matchers, ra, fa, threads, last>>

RegexpIds == {1, 2}
MatcherIds == {"m1"}
\* The Matchers of the two-thread scenario: thread t drives Matcher t.
SharedMatcherIds == {"m1", "m2"}

\* The native handles: Regexp r owns PtrHandle(r) once compiled and
\* ExtraHandle(r) once studied.  0 is the nil pointer.
PtrHandle(r) == 2 * r - 1
ExtraHandle(r) == 2 * r
Handles == {PtrHandle(r) : r \in RegexpIds} \cup {ExtraHandle(r) : r \in RegexpIds}

NilErr == [kind |-> "nil", rc |-> 0]
Err(kind) == [kind |-> kind, rc |-> 0]

\* A Regexp not yet created ("none"), a Regexp object ("live"), or one the
\* garbage collector has reclaimed ("gone").  held: the program still holds
\* a pointer to it.  released: FreeRegexp has run on it (history).
NoRegexp ==
    [st |-> "none", ptr |-> 0, extra |-> 0, fin |-> FALSE, held |-> FALSE,
     released |-> FALSE]

NoLast ==
    [op |-> "none", id |-> 0, mid |-> "", ok |-> FALSE, rc |-> 0, err |-> NilErr,
     panic |-> FALSE, calls |-> <<>>, out |-> <<>>, isnil |-> FALSE, arg |-> 0]

Call(fn, h) == [fn |-> fn, h |-> h]

\* type Matcher struct: the zero value.  re = 0 is the nil *Regexp;
\* bnil tells a nil subjectb from an empty one.
ZeroMatcher ==
    [re |-> 0, groups |-> 0, ovector |-> <<>>, matches |-> FALSE,
     partial |-> FALSE, subjects |-> <<>>, subjectb |-> <<>>, bnil |-> TRUE,
     err |-> NilErr]

IdleFrame == [pc |-> "idle"]

\* A thread's position in a Matcher call: the method, its arguments, the
\* local rc and the engine calls made so far; m0 (history) is the Matcher as
\* the call found it.  pc: "idle" between calls, "call" on entry, "bind"
\* in Init before m.re is assigned, "exec" before pcre_exec, "collect"
\* after Exec has returned to Match.
ThreadFrame(pc, op, r, subject, bnil, flags, m0) ==
    [pc |-> pc, op |-> op, r |-> r, subject |-> subject, bnil |-> bnil,
     flags |-> flags, rc |-> 0, calls |-> <<>>, m0 |-> m0]

ThreadIdle == ThreadFrame("idle", "none", 0, <<>>, TRUE, 0, ZeroMatcher)

Idle == ra.pc = "idle" /\ fa.pc = "idle"

Init ==
    /\ regexps = [r \in RegexpIds |-> NoRegexp]
    /\ heap = [h \in Handles |-> [st |-> "unalloc", pat |-> "", frees |-> 0]]
    /\ matchers = [m \in SharedMatcherIds |-> ZeroMatcher]
    /\ threads = [m \in SharedMatcherIds |-> ThreadIdle]
    /\ ra = IdleFrame
    /\ fa = IdleFrame
    /\ last = NoLast

\* ---------------------------------------------------------- Regexp
\* Regexp objects are numbered in the order of their creation.
\* Compile: a pattern with a NUL byte yields no Regexp at all; a pattern
\* the engine rejects yields a Regexp whose ptr is nil and no finalizer;
\* otherwise the Regexp owns a fresh handle and the finalizer is set.
Compile(r, pattern) ==
    /\ Idle
    /\ regexps[r].st = "none"
    /\ \A q \in RegexpIds : q < r => regexps[q].st # "none"
    /\ IF pattern = NulPattern
       THEN /\ UNCHANGED <<regexps, heap>>
            /\ last' = [NoLast EXCEPT !.op = "Compile", !.id = r,
                           !.err = Err("NUL byte in pattern")]
       ELSE IF pattern = BadPattern
       THEN /\ regexps' = [regexps EXCEPT ![r] =
                              [NoRegexp EXCEPT !.st = "live", !.held = TRUE]]
            /\ UNCHANGED heap
            /\ last' = [NoLast EXCEPT !.op = "Compile", !.id = r,
                           !.err = Err("compile"),
                           !.calls = <<Call("pcre_compile", 0)>>]
       ELSE /\ regexps' = [regexps EXCEPT ![r] =
                              [NoRegexp EXCEPT !.st = "live", !.held = TRUE,
                                  !.ptr = PtrHandle(r), !.fin = TRUE]]
            /\ heap' = [heap EXCEPT ![PtrHandle(r)] =
                           [st |-> "live", pat |-> pattern, frees |-> 0]]
            /\ last' = [NoLast EXCEPT !.op = "Compile", !.id = r, !.ok = TRUE,
                           !.calls = <<Call("pcre_compile", PtrHandle(r))>>]
    /\ UNCHANGED <<matchers, ra, fa, threads>>

\* The engine's free function on handle h (0: not called).
Freed(hp, h) ==
    IF h = 0 THEN hp
    ELSE [hp EXCEPT ![h].st = "freed", ![h].frees = @ + 1]

\* A FreeRegexp that forgets to nil the compiled handle.
FreeRegexpKeepsPtr(re) ==
    [re EXCEPT !.extra = 0, !.fin = FALSE, !.released = TRUE]

\* FreeRegexp's effect on the Regexp: both handles nil, finalizer cleared.
FreeRegexpFields(re) ==
    [re EXCEPT !.ptr = 0, !.extra = 0, !.fin = FALSE, !.released = TRUE]

FreeRegexpHeap(re, hp) == Freed(Freed(hp, re.ptr), re.extra)

FreeRegexpCalls(re) ==
    (IF re.ptr # 0 THEN <<Call("pcre_free", re.ptr)>> ELSE <<>>)
    \o (IF re.extra # 0 THEN <<Call("pcre_free_study", re.extra)>> ELSE <<>>)

FreeRegexp(r) ==
    /\ Idle
    /\ regexps[r].st = "live" /\ regexps[r].held
    /\ regexps' = [regexps EXCEPT ![r] = FreeRegexpFields(@)]
    /\ heap' = FreeRegexpHeap(regexps[r], heap)
    /\ last' = [NoLast EXCEPT !.op = "FreeRegexp", !.id = r, !.ok = TRUE,
                   !.calls = FreeRegexpCalls(regexps[r])]
    /\ UNCHANGED <<matchers, ra, fa, threads>>

\* The program drops its last pointer to the Regexp.
DropRef(r) ==
    /\ Idle
    /\ regexps[r].st = "live" /\ regexps[r].held
    /\ regexps' = [regexps EXCEPT ![r].held = FALSE]
    /\ last' = [NoLast EXCEPT !.op = "DropRef", !.id = r]
    /\ UNCHANGED <<heap, matchers, ra, fa, threads>>

\* The Regexp is reachable from the program or from a Matcher.
Reachable(r) ==
    \/ regexps[r].held
    \/ \E m \in DOMAIN matchers : matchers[m].re = r

\* The finalizer set by Compile: runs FreeRegexp on an unreachable Regexp,
\* after which the object is reclaimed.
Finalize(r) ==
    /\ Idle
    /\ regexps[r].st = "live" /\ regexps[r].fin /\ ~Reachable(r)
    /\ regexps' = [regexps EXCEPT ![r] = [FreeRegexpFields(@) EXCEPT !.st = "gone"]]
    /\ heap' = FreeRegexpHeap(regexps[r], heap)
    /\ last' = [NoLast EXCEPT !.op = "Finalize", !.id = r, !.ok = TRUE,
                   !.calls = FreeRegexpCalls(regexps[r])]
    /\ UNCHANGED <<matchers, ra, fa, threads>>

STUDY_JIT_PARTIAL_SOFT_COMPILE == 2
StudyFlags == {0, STUDY_JIT_COMPILE, STUDY_JIT_PARTIAL_SOFT_COMPILE}

\* pcre_study's possible answers: an optimization handle, nothing without
\* an error, or an error message (and nothing); a nil pattern is an error.
StudyOutcomes(ptr) ==
    IF ptr = 0 THEN {"error"} ELSE {"extra", "none", "error"}

\* A Study without its guard.
NeverStudied(re) == FALSE

\* Study's guard: the Regexp has been optimized already.
AlreadyStudied(re) == re.extra # 0

\* Study: 0 flags mean STUDY_JIT_COMPILE.
Study(r, flags, outcome) ==
    /\ Idle
    /\ regexps[r].st = "live" /\ regexps[r].held
    /\ IF AlreadyStudied(regexps[r])
       THEN /\ UNCHANGED <<regexps, heap>>
            /\ last' = [NoLast EXCEPT !.op = "Study", !.id = r,
                           !.err = Err("already been optimized")]
       ELSE /\ outcome \in StudyOutcomes(regexps[r].ptr)
            /\ regexps' = [regexps EXCEPT ![r].extra =
                              IF outcome = "extra" THEN ExtraHandle(r) ELSE 0]
            /\ heap' = IF outcome = "extra"
                       THEN [heap EXCEPT ![ExtraHandle(r)] =
                                [st |-> "live", pat |-> "", frees |-> 0]]
                       ELSE heap
            /\ last' = [NoLast EXCEPT !.op = "Study", !.id = r,
                           !.ok = (outcome # "error"),
                           !.rc = IF flags = 0 THEN STUDY_JIT_COMPILE ELSE flags,
                           !.err = IF outcome = "error" THEN Err("study") ELSE NilErr,
                           !.calls = <<Call("pcre_study", regexps[r].ptr)>>]
    /\ UNCHANGED <<matchers, ra, fa, threads>>

\* The flags Study hands to pcre_study.
JitFlags(flags) == IF flags = 0 THEN STUDY_JIT_COMPILE ELSE flags

\* The error Compile returns for the pattern.
CompileErr(pattern) ==
    IF pattern = NulPattern THEN Err("NUL byte in pattern")
    ELSE IF pattern = BadPattern THEN Err("compile")
    ELSE NilErr

\* A CompileJIT that studies whatever Compile returned.
StudyAnyway(err) == TRUE

\* CompileJIT's test of Compile's error before Study.
StudyAfter(err) == err = NilErr

\* The Regexp object Compile returns for the pattern (none for a pattern
\* with a NUL byte).
Compiled(r, pattern) ==
    IF pattern = NulPattern THEN NoRegexp
    ELSE IF pattern = BadPattern
    THEN [NoRegexp EXCEPT !.st = "live", !.held = TRUE]
    ELSE [NoRegexp EXCEPT !.st = "live", !.held = TRUE,
                          !.ptr = PtrHandle(r), !.fin = TRUE]

\* The engine's heap after Compile of the pattern into Regexp r.
CompiledHeap(r, pattern) ==
    IF CompileErr(pattern) # NilErr THEN heap
    ELSE [heap EXCEPT ![PtrHandle(r)] =
             [st |-> "live", pat |-> pattern, frees |-> 0]]

\* CompileJIT: Compile, then Study on its result if Compile returned no
\* error.  (Study on the nil Regexp of a NUL pattern would panic.)
CompileJIT(r, pattern, jitFlags, outcome) ==
    /\ Idle
    /\ regexps[r].st = "none"
    /\ \A q \in RegexpIds : q < r => regexps[q].st # "none"
    /\ IF ~StudyAfter(CompileErr(pattern))
       THEN /\ regexps' = [regexps EXCEPT ![r] = Compiled(r, pattern)]
            /\ heap' = CompiledHeap(r, pattern)
            /\ last' = [NoLast EXCEPT !.op = "CompileJIT", !.id = r,
                           !.arg = jitFlags, !.err = CompileErr(pattern),
                           !.calls = IF pattern = NulPattern THEN <<>>
                                     ELSE <<Call("pcre_compile", 0)>>]
       ELSE IF pattern = NulPattern
       THEN /\ UNCHANGED <<regexps, heap>>
            /\ last' = [NoLast EXCEPT !.op = "CompileJIT", !.id = r,
                           !.arg = jitFlags, !.panic = TRUE]
       ELSE /\ outcome \in StudyOutcomes(Compiled(r, pattern).ptr)
            /\ regexps' = [regexps EXCEPT ![r] =
                              [Compiled(r, pattern) EXCEPT !.extra =
                                  IF outcome = "extra" THEN ExtraHandle(r) ELSE 0]]
            /\ heap' = IF outcome = "extra"
                       THEN [CompiledHeap(r, pattern) EXCEPT ![ExtraHandle(r)] =
                                [st |-> "live", pat |-> "", frees |-> 0]]
                       ELSE CompiledHeap(r, pattern)
            /\ last' = [NoLast EXCEPT !.op = "CompileJIT", !.id = r,
                           !.arg = jitFlags, !.ok = (outcome # "error"),
                           !.rc = JitFlags(jitFlags),
                           !.err = IF outcome = "error" THEN Err("study") ELSE NilErr,
                           !.calls = <<Call("pcre_compile", Compiled(r, pattern).ptr),
                                       Call("pcre_study", Compiled(r, pattern).ptr)>>]
    /\ UNCHANGED <<matchers, ra, fa, threads>>

\* ---------------------------------------------------------- Matcher
\* The compiled handle behind a Matcher's re, 0 when re is nil or released.
BoundPtr(m) == IF m.re = 0 THEN 0 ELSE regexps[m.re].ptr

\* Regexp.Groups on a compiled Regexp: pcre_fullinfo's capture count.
Groups(re) == CaptureCount(heap[re.ptr].pat)

\* Init's reset of the result fields.
InitFlags(m) == [m EXCEPT !.matches = FALSE, !.err = NilErr]

\* Init's fast path: the Matcher is bound to the same compiled handle.
SameHandle(m, re) == BoundPtr(m) # 0 /\ BoundPtr(m) = re.ptr

\* An Init that allocates the offset vector anew on every rebinding.
ExactOvector(ovector, ovectorlen) == Zeros(ovectorlen)

\* Init's sizing of the offset vector.
GrowOvector(ovector, ovectorlen) ==
    IF Len(ovector) < ovectorlen THEN Zeros(ovectorlen) ELSE ovector

\* Init's rebinding: re, the cached group count, the offset vector.
Bind(m, r, groups) ==
    [m EXCEPT !.re = r, !.groups = groups,
              !.ovector = GrowOvector(@, 3 * (1 + groups))]

\* Matcher.Init(re) on Matcher value m: the Matcher it leaves, whether it
\* panicked, and the engine calls made.
MatcherInit(m, r) ==
    IF regexps[r].ptr = 0
    THEN [m |-> m, panic |-> TRUE, calls |-> <<>>]
    ELSE IF SameHandle(m, regexps[r])
    THEN [m |-> InitFlags(m), panic |-> FALSE, calls |-> <<>>]
    ELSE [m |-> Bind(InitFlags(m), r, Groups(regexps[r])),
          panic |-> FALSE,
          calls |-> <<Call("pcre_fullinfo", regexps[r].ptr)>>]

\* A classification that does not know the partial-match code.
matchedNoPartial(rc) ==
    IF rc >= 0 THEN [ok |-> TRUE, err |-> NilErr]
    ELSE IF rc = ERROR_NOMATCH THEN [ok |-> FALSE, err |-> NilErr]
    ELSE IF rc = ERROR_BADOPTION
         THEN [ok |-> FALSE, err |-> Err("invalid option flag")]
    ELSE [ok |-> FALSE, err |-> [kind |-> "unexpected return code", rc |-> rc]]

\* matched: the classification of pcre_exec's return code.
matched(rc) ==
    IF rc >= 0 \/ rc = ERROR_PARTIAL THEN [ok |-> TRUE, err |-> NilErr]
    ELSE IF rc = ERROR_NOMATCH THEN [ok |-> FALSE, err |-> NilErr]
    ELSE IF rc = ERROR_BADOPTION
         THEN [ok |-> FALSE, err |-> Err("invalid option flag")]
    ELSE [ok |-> FALSE, err |-> [kind |-> "unexpected return code", rc |-> rc]]

\* What a call that panicked or did nothing leaves.
NoCall(m, panic) ==
    [m |-> m, ok |-> FALSE, rc |-> 0, panic |-> panic, calls |-> <<>>]

\* exec's result from pcre_exec's answer res on handle ptr.
ExecResult(m, ptr, res) ==
    [m |-> [m EXCEPT !.ovector = res.ovector], ok |-> FALSE, rc |-> res.rc,
     panic |-> FALSE, calls |-> <<Call("pcre_exec", ptr)>>]

\* Matcher.exec: pcre_exec on the bound handle with the Matcher's vector;
\* taking &m.ovector[0] of an empty vector panics.
exec(m, subject, flags) ==
    IF Len(m.ovector) = 0
    THEN NoCall(m, TRUE)
    ELSE ExecResult(m, BoundPtr(m),
                    pcre_exec(heap[BoundPtr(m)].pat, subject, flags, m.ovector))

\* A recording of the subject that leaves the other field as it was.
SetSubjectKeepsOther(m, subject, bnil, isString) ==
    IF isString THEN [m EXCEPT !.subjects = subject]
    ELSE [m EXCEPT !.subjectb = subject, !.bnil = bnil]

\* Exec's and ExecString's recording of the subject.
SetSubject(m, subject, bnil, isString) ==
    [m EXCEPT !.subjects = IF isString THEN subject ELSE <<>>,
              !.subjectb = IF isString THEN <<>> ELSE subject,
              !.bnil = IF isString THEN TRUE ELSE bnil]

\* Matcher.Exec (isString FALSE; bnil: the byte slice is nil) and
\* Matcher.ExecString (isString TRUE): record the subject, call exec.
MatcherExec(m, subject, bnil, isString, flags) ==
    IF BoundPtr(m) = 0
    THEN NoCall(m, TRUE)
    ELSE exec(SetSubject(m, subject, bnil, isString), subject, flags)

\* A Match that does not look at the recorded error.
ErrIgnored(m) == FALSE

\* Match's first test: an error is recorded.
HasErr(m) == m.err # NilErr

\* A collection that drops the error of the classification.
CollectNoErr(e) ==
    IF e.panic THEN e
    ELSE [e EXCEPT !.m = [@ EXCEPT !.matches = matched(e.rc).ok,
                                   !.partial = (e.rc = ERROR_PARTIAL)],
                   !.ok = matched(e.rc).ok]

\* Match's collection of Exec's result e.
Collect(e) ==
    IF e.panic THEN e
    ELSE [e EXCEPT !.m = [@ EXCEPT !.matches = matched(e.rc).ok,
                                   !.err = matched(e.rc).err,
                                   !.partial = (e.rc = ERROR_PARTIAL)],
                   !.ok = matched(e.rc).ok]

\* Matcher.Match and Matcher.MatchString.
MatcherMatch(m, subject, bnil, isString, flags) ==
    IF HasErr(m) THEN NoCall(m, FALSE)
    ELSE IF BoundPtr(m) = 0 THEN NoCall(m, TRUE)
    ELSE Collect(MatcherExec(m, subject, bnil, isString, flags))

\* Match after Init's result i.
MatchAfterInit(i, x) ==
    IF i.panic THEN NoCall(i.m, TRUE) ELSE [x EXCEPT !.calls = i.calls \o @]

\* Matcher.Reset and Matcher.ResetString: Init, then Match.  (Init leaves
\* the Matcher untouched when it panics.)
MatcherReset(m, r, subject, bnil, isString, flags) ==
    MatchAfterInit(MatcherInit(m, r),
        IF regexps[r].ptr = 0 THEN NoCall(m, TRUE)
        ELSE MatcherMatch(MatcherInit(m, r).m, subject, bnil, isString, flags))

\* The arguments of a match: a subject and the flags.  An answer forced
\* by the flags is tried on one subject.
ForcedSubject == <<"a">>
ArgsOver(subjects) ==
    {a \in subjects \X Flags : a[2] # 0 => a[1] = ForcedSubject}
MatchArgs == ArgsOver(Subjects)
\* Reset is Init followed by Match: it is tried on the shortest subjects.
ResetArgs == ArgsOver({s \in Subjects : Len(s) <= 1})

UsableRegexp(r) == regexps[r].st = "live" /\ regexps[r].held

\* The state a Matcher call leaves: the Matcher and the call's result.
Returns(op, mid, r, x) ==
    /\ matchers' = [matchers EXCEPT ![mid] = x.m]
    /\ last' = [NoLast EXCEPT !.op = op, !.mid = mid, !.id = r, !.ok = x.ok,
                   !.rc = x.rc, !.panic = x.panic, !.calls = x.calls]
    /\ UNCHANGED <<regexps, heap, ra, fa, threads>>

\* m.Init(re)
MInit(mid, r) ==
    /\ Idle
    /\ UsableRegexp(r)
    /\ matchers' = [matchers EXCEPT ![mid] = MatcherInit(@, r).m]
    /\ last' = [NoLast EXCEPT !.op = "Init", !.mid = mid, !.id = r,
                   !.panic = MatcherInit(matchers[mid], r).panic,
                   !.calls = MatcherInit(matchers[mid], r).calls]
    /\ UNCHANGED <<regexps, heap, ra, fa, threads>>

\* m.Match(subject, flags)
Match(mid, subject, bnil, flags) ==
    /\ Idle
    /\ Returns("Match", mid, 0,
               MatcherMatch(matchers[mid], subject, bnil, FALSE, flags))

\* m.MatchString(subject, flags)
MatchString(mid, subject, flags) ==
    /\ Idle
    /\ Returns("MatchString", mid, 0,
               MatcherMatch(matchers[mid], subject, TRUE, TRUE, flags))

\* m.Exec(subject, flags)
Exec(mid, subject, bnil, flags) ==
    /\ Idle
    /\ Returns("Exec", mid, 0,
               MatcherExec(matchers[mid], subject, bnil, FALSE, flags))

\* m.ExecString(subject, flags)
ExecString(mid, subject, flags) ==
    /\ Idle
    /\ Returns("ExecString", mid, 0,
               MatcherExec(matchers[mid], subject, TRUE, TRUE, flags))

\* m.Reset(re, subject, flags)
Reset(mid, r, subject, bnil, flags) ==
    /\ Idle
    /\ UsableRegexp(r)
    /\ Returns("Reset", mid, r,
               MatcherReset(matchers[mid], r, subject, bnil, FALSE, flags))

\* m.ResetString(re, subject, flags)
ResetString(mid, r, subject, flags) ==
    /\ Idle
    /\ UsableRegexp(r)
    /\ Returns("ResetString", mid, r,
               MatcherReset(matchers[mid], r, subject, TRUE, TRUE, flags))

\* Slot k (0-based, as in the source) of the offset vector.
Ov(m, k) == m.ovector[k + 1]

\* The slice expression subject[x0:x1] of group i's slots is in range.
GroupSliceOK(m, subject, i) ==
    /\ 2 * i + 2 <= Len(m.ovector)
    /\ SliceOK(subject, Ov(m, 2 * i), Ov(m, 2 * i + 1))

\* Extract over the recorded subject (bytes, or string for ExtractString):
\* nil without a match; else groups+1 entries, entry 0 the recorded
\* subject and entry i the slice subject[x0:x1] of group i's slots.  A slice
\* expression out of range panics.  An entry is its bytes and whether it is
\* the nil slice.
ExtractFrom(m, subject, isnil) ==
    IF ~m.matches
    THEN [panic |-> FALSE, isnil |-> TRUE, out |-> <<>>]
    ELSE IF \E i \in 1..m.groups : ~GroupSliceOK(m, subject, i)
    THEN [panic |-> TRUE, isnil |-> FALSE, out |-> <<>>]
    ELSE [panic |-> FALSE, isnil |-> FALSE,
          out |-> [i \in 1..(m.groups + 1) |->
                      IF i = 1 THEN [nil |-> isnil, val |-> subject]
                      ELSE [nil |-> isnil,
                            val |-> Slice(subject, Ov(m, 2 * (i - 1)),
                                          Ov(m, 2 * (i - 1) + 1))]]]

MatcherExtract(m) == ExtractFrom(m, m.subjectb, m.bnil)

MatcherExtractString(m) == ExtractFrom(m, m.subjects, FALSE)

\* The state an accessor leaves: its result.
Reads(op, mid, x) ==
    /\ last' = [NoLast EXCEPT !.op = op, !.mid = mid, !.panic = x.panic,
                   !.isnil = x.isnil, !.out = x.out]
    /\ UNCHANGED <<regexps, heap, matchers, ra, fa, threads>>

\* m.Extract()
Extract(mid) ==
    /\ Idle
    /\ Reads("Extract", mid, MatcherExtract(matchers[mid]))

\* m.ExtractString()
ExtractString(mid) ==
    /\ Idle
    /\ Reads("ExtractString", mid, MatcherExtractString(matchers[mid]))

\* ------------------------------------------------- numbered accessors
\* The group numbers handed to the accessors.
GroupNumbers == {0, 1, 2}

\* Reading slots 2*group (and, if pair, 2*group+1) of the offset vector is
\* in range.
SlotsOK(m, group, pair) ==
    2 * group + (IF pair THEN 1 ELSE 0) < Len(m.ovector)

\* m.Present(group)
MatcherPresent(m, group) == Ov(m, 2 * group) >= 0

\* The subject Group and GroupString slice: the bytes unless they are nil.
GroupSubject(m) == IF ~m.bnil THEN m.subjectb ELSE m.subjects

\* A value returned by an accessor: nil, or val.
NilValue == [panic |-> FALSE, isnil |-> TRUE, out |-> <<>>]
Value(val) == [panic |-> FALSE, isnil |-> FALSE, out |-> val]
Panic == [panic |-> TRUE, isnil |-> FALSE, out |-> <<>>]

\* The slice subject[start:end], when start >= 0.
GroupSlice(subject, start, end) ==
    IF SliceOK(subject, start, end) THEN Value(Slice(subject, start, end))
    ELSE Panic

\* A Group that slices the string whatever the recorded subject.
MatcherGroupOfString(m, group) ==
    IF ~SlotsOK(m, group, TRUE) THEN Panic
    ELSE IF Ov(m, 2 * group) >= 0
    THEN GroupSlice(m.subjects, Ov(m, 2 * group), Ov(m, 2 * group + 1))
    ELSE NilValue

\* m.Group(group): nil for a group that is not present.
MatcherGroup(m, group) ==
    IF ~SlotsOK(m, group, TRUE) THEN Panic
    ELSE IF Ov(m, 2 * group) >= 0
    THEN GroupSlice(GroupSubject(m), Ov(m, 2 * group), Ov(m, 2 * group + 1))
    ELSE NilValue

\* m.GroupString(group): the empty string for a group that is not present.
MatcherGroupString(m, group) ==
    IF ~SlotsOK(m, group, TRUE) THEN Panic
    ELSE IF Ov(m, 2 * group) >= 0
    THEN GroupSlice(GroupSubject(m), Ov(m, 2 * group), Ov(m, 2 * group + 1))
    ELSE Value(<<>>)

\* m.GroupIndices(group): nil for a group that is not present.
MatcherGroupIndices(m, group) ==
    IF ~SlotsOK(m, group, TRUE) THEN Panic
    ELSE IF Ov(m, 2 * group) >= 0
    THEN Value(<<Ov(m, 2 * group), Ov(m, 2 * group + 1)>>)
    ELSE NilValue

\* The state a numbered accessor leaves: its result for the group.
ReadsGroup(op, mid, group, x) ==
    /\ last' = [NoLast EXCEPT !.op = op, !.mid = mid, !.rc = group,
                   !.panic = x.panic, !.isnil = x.isnil, !.out = x.out]
    /\ UNCHANGED <<regexps, heap, matchers, ra, fa, threads>>

\* m.Present(group)
Present(mid, group) ==
    /\ Idle
    /\ last' = [NoLast EXCEPT !.op = "Present", !.mid = mid, !.rc = group,
                   !.panic = ~SlotsOK(matchers[mid], group, FALSE),
                   !.ok = /\ SlotsOK(matchers[mid], group, FALSE)
                          /\ MatcherPresent(matchers[mid], group)]
    /\ UNCHANGED <<regexps, heap, matchers, ra, fa, threads>>

\* m.Group(group)
Group(mid, group) ==
    /\ Idle
    /\ ReadsGroup("Group", mid, group, MatcherGroup(matchers[mid], group))

\* m.GroupString(group)
GroupString(mid, group) ==
    /\ Idle
    /\ ReadsGroup("GroupString", mid, group,
                  MatcherGroupString(matchers[mid], group))

\* m.GroupIndices(group)
GroupIndices(mid, group) ==
    /\ Idle
    /\ ReadsGroup("GroupIndices", mid, group,
                  MatcherGroupIndices(matchers[mid], group))

\* ---------------------------------------------------- named accessors
\* A name lookup that asks the engine whatever the Matcher is bound to.
name2indexUnchecked(m, name) ==
    [group |-> ERROR_NOSUBSTRING, err |-> Err("unknown name"),
     calls |-> <<Call("pcre_get_stringnumber", BoundPtr(m))>>]

\* m.name2index(name): the group's number and the error, with the engine
\* calls made.
name2index(m, name) ==
    IF BoundPtr(m) = 0
    THEN [group |-> 0, err |-> Err("uninitialized"), calls |-> <<>>]
    ELSE IF pcre_get_stringnumber(heap[BoundPtr(m)].pat, name) < 0
    THEN [group |-> pcre_get_stringnumber(heap[BoundPtr(m)].pat, name),
          err |-> Err("unknown name"),
          calls |-> <<Call("pcre_get_stringnumber", BoundPtr(m))>>]
    ELSE [group |-> pcre_get_stringnumber(heap[BoundPtr(m)].pat, name),
          err |-> NilErr,
          calls |-> <<Call("pcre_get_stringnumber", BoundPtr(m))>>]

\* The state a named accessor leaves: the lookup's error with the value
\* returned beside it (x), or the numbered accessor's result (x).
ReadsNamed(op, mid, n, x) ==
    /\ last' = [NoLast EXCEPT !.op = op, !.mid = mid, !.rc = n.group,
                   !.err = n.err, !.calls = n.calls, !.ok = x.ok,
                   !.panic = x.panic, !.isnil = x.isnil, !.out = x.out]
    /\ UNCHANGED <<regexps, heap, matchers, ra, fa, threads>>

\* An accessor's result with the boolean ok beside it.
WithOk(x, ok) ==
    [panic |-> x.panic, isnil |-> x.isnil, out |-> x.out, ok |-> ok]

\* Named's result after the lookup n: []byte{} with the error, or Group.
NamedValue(m, n) ==
    IF n.err # NilErr THEN WithOk(Value(<<>>), FALSE)
    ELSE WithOk(MatcherGroup(m, n.group), FALSE)

\* NamedString's result after the lookup n: "" with the error, or
\* GroupString.
NamedStringValue(m, n) ==
    IF n.err # NilErr THEN WithOk(Value(<<>>), FALSE)
    ELSE WithOk(MatcherGroupString(m, n.group), FALSE)

\* NamedPresent's result after the lookup n: false with the error, or
\* Present.
NamedPresentValue(m, n) ==
    IF n.err # NilErr THEN WithOk(Value(<<>>), FALSE)
    ELSE IF ~SlotsOK(m, n.group, FALSE) THEN WithOk(Panic, FALSE)
    ELSE WithOk(Value(<<>>), MatcherPresent(m, n.group))

\* m.Named(group)
Named(mid, name) ==
    /\ Idle
    /\ ReadsNamed("Named", mid, name2index(matchers[mid], name),
                  NamedValue(matchers[mid], name2index(matchers[mid], name)))

\* m.NamedString(group)
NamedString(mid, name) ==
    /\ Idle
    /\ ReadsNamed("NamedString", mid, name2index(matchers[mid], name),
                  NamedStringValue(matchers[mid], name2index(matchers[mid], name)))

\* m.NamedPresent(group)
NamedPresent(mid, name) ==
    /\ Idle
    /\ ReadsNamed("NamedPresent", mid, name2index(matchers[mid], name),
                  NamedPresentValue(matchers[mid], name2index(matchers[mid], name)))

\* re.Groups(): panics on a Regexp without a compiled handle.
RegexpGroups(r) ==
    /\ Idle
    /\ UsableRegexp(r)
    /\ last' = IF regexps[r].ptr = 0
               THEN [NoLast EXCEPT !.op = "Groups", !.id = r, !.panic = TRUE]
               ELSE [NoLast EXCEPT !.op = "Groups", !.id = r, !.ok = TRUE,
                        !.rc = Groups(regexps[r]),
                        !.calls = <<Call("pcre_fullinfo", regexps[r].ptr)>>]
    /\ UNCHANGED <<regexps, heap, matchers, ra, fa, threads>>

\* ------------------------------------------------- convenience loops
\* The subjects and replacements handed to ReplaceAll and FindAll.
LoopSubjects == SeqsUpTo(MaxLoopLen)
LoopArgs == ArgsOver(LoopSubjects)
\* FindAll is also handed the subject "baaab".
ScenarioSubject == <<"b", "a", "a", "a", "b">>
\* Both loops are handed "ba" under a match limit: the first attempt
\* matches, the second exceeds the limit.
LimitArgs == {<< <<"b", "a">>, -ERROR_MATCHLIMIT >>}
ReplaceAllArgs == LoopArgs \cup LimitArgs
FindAllArgs == LoopArgs \cup LimitArgs \cup {<<ScenarioSubject, 0>>}
Repls == UNION {[1..n -> {"-"}] : n \in 0..MaxReplLen}

\* The longest result of a ReplaceAll call that returns: every match of
\* such a call consumes a byte.  The accumulator is kept to this length; the
\* bytes a longer one would hold belong to a call that never returns.
MaxOut == MaxLoopLen + (MaxLoopLen + 1) * MaxReplLen
Trunc(s) == IF Len(s) > MaxOut THEN SubSeq(s, 1, MaxOut) ELSE s

\* re.Matcher(subject, flags) and re.MatcherString: NewMatcher (Init on a
\* zero Matcher), then Match.
NewMatcherMatch(r, subject, isString, flags) ==
    MatcherReset(ZeroMatcher, r, subject, FALSE, isString, flags)

\* A call that panicked: no frame is left.
Panicked(op, r, calls) ==
    [NoLast EXCEPT !.op = op, !.id = r, !.panic = TRUE, !.calls = calls]

Stepped(op, r, calls) ==
    [NoLast EXCEPT !.op = op, !.id = r, !.calls = calls]

\* ReplaceAll's frame after m := re.Matcher(bytes, flags) returned x.
\* orig keeps the bytes the call was handed, rc the code of the last
\* attempt.
ReplaceAllEnter(r, bytes, repl, flags, x) ==
    /\ ra' = IF x.panic THEN ra
             ELSE [pc |-> "loop", re |-> r, orig |-> bytes, bytes |-> bytes,
                   repl |-> repl, flags |-> flags, r |-> <<>>, m |-> x.m,
                   n |-> 1, rc |-> x.rc]
    /\ last' = IF x.panic THEN Panicked("ReplaceAll", r, x.calls)
               ELSE Stepped("ReplaceAllCall", r, x.calls)

\* ReplaceAll up to its loop: m := re.Matcher(bytes, flags); r := []byte{}.
ReplaceAllCall(r, bytes, repl, flags) ==
    /\ Idle
    /\ UsableRegexp(r)
    /\ ReplaceAllEnter(r, bytes, repl, flags,
                       NewMatcherMatch(r, bytes, FALSE, flags))
    /\ UNCHANGED <<regexps, heap, matchers, fa, threads>>

\* The frame after the loop body matched the rest of the subject: x.
\* n counts the match attempts; a call that returns makes at most
\* MaxLoopLen + 1, and beyond that only the parity of n is kept.
ReplaceAllNext(rest, x) ==
    /\ ra' = [ra EXCEPT
                 !.r = Trunc(@ \o Slice(ra.bytes, 0, Ov(ra.m, 0)) \o ra.repl),
                 !.bytes = rest,
                 !.m = x.m,
                 !.n = IF @ > MaxLoopLen + 1 THEN MaxLoopLen + 1 ELSE @ + 1,
                 !.rc = x.rc]
    /\ last' = Stepped("ReplaceAllStep", ra.re, x.calls)

\* A rest that starts one byte late.
RestSkipsOne(bytes, m) ==
    Slice(bytes, IF Ov(m, 1) < Len(bytes) THEN Ov(m, 1) + 1 ELSE Ov(m, 1),
          Len(bytes))

\* The rest of the subject after the match of Matcher m.
Rest(bytes, m) == Slice(bytes, Ov(m, 1), Len(bytes))

\* One iteration of ReplaceAll's loop (m.matches holds): append the bytes
\* before the match and repl, drop the subject through the match's end,
\* match again.
ReplaceAllStep ==
    /\ ra.pc = "loop"
    /\ ra.m.matches
    /\ IF ~SliceOK(ra.bytes, 0, Ov(ra.m, 0)) \/ ~SliceOK(ra.bytes, Ov(ra.m, 1), Len(ra.bytes))
       THEN /\ ra' = IdleFrame
            /\ last' = Panicked("ReplaceAll", ra.re, <<>>)
       ELSE ReplaceAllNext(Rest(ra.bytes, ra.m),
                MatcherMatch(ra.m, Rest(ra.bytes, ra.m), FALSE, FALSE, ra.flags))
    /\ UNCHANGED <<regexps, heap, matchers, fa, threads>>

\* ReplaceAll's return, once m.matches is false: the accumulator and the
\* rest of the subject, with the Matcher's error.
ReplaceAllReturn ==
    /\ ra.pc = "loop"
    /\ ~ra.m.matches
    /\ ra' = IdleFrame
    /\ last' = [NoLast EXCEPT !.op = "ReplaceAll", !.id = ra.re, !.ok = TRUE,
                   !.out = ra.r \o ra.bytes, !.err = ra.m.err, !.rc = ra.n]
    /\ UNCHANGED <<regexps, heap, matchers, fa, threads>>

\* An advance by the match's end alone.
secondInt(a, b) == b

maxInt(a, b) == IF a > b THEN a ELSE b

\* FindAll's frame after m := re.MatcherString(subject, flags) returned x.
\* rc keeps the code of the last attempt.
FindAllEnter(r, subject, flags, x) ==
    /\ fa' = IF x.panic THEN fa
             ELSE [pc |-> "loop", re |-> r, subject |-> subject,
                   flags |-> flags, matches |-> <<>>, offset |-> 0,
                   m |-> x.m, brk |-> FALSE, rc |-> x.rc]
    /\ last' = IF x.panic THEN Panicked("FindAll", r, x.calls)
               ELSE Stepped("FindAllCall", r, x.calls)

\* FindAll up to its loop: m := re.MatcherString(subject, flags).
FindAllCall(r, subject, flags) ==
    /\ Idle
    /\ UsableRegexp(r)
    /\ FindAllEnter(r, subject, flags, NewMatcherMatch(r, subject, TRUE, flags))
    /\ UNCHANGED <<regexps, heap, matchers, ra, threads>>

\* The frame after the loop body reported the match at (leftIdx, rightIdx)
\* and advanced to offset: the suffix is matched (x), or the loop breaks.
FindAllNext(leftIdx, rightIdx, offset, x) ==
    /\ fa' = [fa EXCEPT
                 !.matches = Append(@, [Finding |-> Slice(fa.subject, leftIdx, rightIdx),
                                        Loc |-> <<leftIdx, rightIdx>>]),
                 !.offset = offset,
                 !.m = IF offset < Len(fa.subject) THEN x.m ELSE @,
                 !.brk = ~(offset < Len(fa.subject)),
                 !.rc = IF offset < Len(fa.subject) THEN x.rc ELSE @]
    /\ last' = Stepped("FindAllStep", fa.re,
                       IF offset < Len(fa.subject) THEN x.calls ELSE <<>>)

\* A rematch of the whole subject instead of its suffix.
MatchWholeSubject(offset) ==
    IF offset < Len(fa.subject)
    THEN MatcherMatch(fa.m, fa.subject, TRUE, TRUE, fa.flags)
    ELSE NoCall(fa.m, FALSE)

\* The match of the suffix of the subject from offset on.
MatchSuffix(offset) ==
    IF offset < Len(fa.subject)
    THEN MatcherMatch(fa.m, Slice(fa.subject, offset, Len(fa.subject)),
                      TRUE, TRUE, fa.flags)
    ELSE NoCall(fa.m, FALSE)

\* One iteration of FindAll's loop (m.Matches() holds): report the match
\* translated by offset, advance offset by maxInt(1, ovector[1]), and match
\* the suffix, or break when offset has reached the subject's length.
FindAllStep ==
    /\ fa.pc = "loop"
    /\ fa.m.matches /\ ~fa.brk
    /\ IF ~SliceOK(fa.subject, Ov(fa.m, 0) + fa.offset, Ov(fa.m, 1) + fa.offset)
       THEN /\ fa' = IdleFrame
            /\ last' = Panicked("FindAll", fa.re, <<>>)
       ELSE FindAllNext(Ov(fa.m, 0) + fa.offset, Ov(fa.m, 1) + fa.offset,
                        fa.offset + maxInt(1, Ov(fa.m, 1)),
                        MatchSuffix(fa.offset + maxInt(1, Ov(fa.m, 1))))
    /\ UNCHANGED <<regexps, heap, matchers, ra, threads>>

\* FindAll's return, after the break or once m.Matches() is false.
FindAllReturn ==
    /\ fa.pc = "loop"
    /\ fa.brk \/ ~fa.m.matches
    /\ fa' = IdleFrame
    /\ last' = [NoLast EXCEPT !.op = "FindAll", !.id = fa.re, !.ok = TRUE,
                   !.out = fa.matches, !.err = fa.m.err]
    /\ UNCHANGED <<regexps, heap, matchers, ra, threads>>

\* ------------------------------------------- two threads, two Matchers
\* Thread t drives Matcher t, one statement group at a time; the steps of
\* the two threads interleave freely.
StringCalls == {"MatchString", "ExecString"}
MatchCalls == {"Match", "MatchString"}

\* An engine whose offset vector is one buffer of the Regexp, shared by all
\* its Matchers.
StoreSharedVector(ms, t, m) ==
    [u \in DOMAIN ms |->
        IF u = t THEN m ELSE [ms[u] EXCEPT !.ovector = m.ovector]]

\* A write through the receiver m of a method: Matcher t, no other.
StoreMatcher(ms, t, m) == [ms EXCEPT ![t] = m]

\* Thread t moves to frame f, its Matcher now m.
Proceeds(t, f, m) ==
    /\ matchers' = StoreMatcher(matchers, t, m)
    /\ threads' = [threads EXCEPT ![t] = f]
    /\ UNCHANGED <<regexps, heap, ra, fa, last>>

\* Thread t's call returns (or panics) with result x.
Completes(t, f, x) ==
    /\ matchers' = StoreMatcher(matchers, t, x.m)
    /\ threads' = [threads EXCEPT ![t] = ThreadIdle]
    /\ last' = [NoLast EXCEPT !.op = f.op, !.mid = t, !.id = f.r, !.ok = x.ok,
                   !.rc = x.rc, !.panic = x.panic, !.calls = x.calls]
    /\ UNCHANGED <<regexps, heap, ra, fa>>

\* Thread t calls m.Init(re).
ThreadInit(t, r) ==
    /\ threads[t].pc = "idle"
    /\ UsableRegexp(r)
    /\ Proceeds(t, ThreadFrame("call", "Init", r, <<>>, TRUE, 0, matchers[t]),
                matchers[t])

\* Thread t calls m.Match, m.MatchString, m.Exec or m.ExecString.
ThreadCall(t, op, subject, flags) ==
    /\ threads[t].pc = "idle"
    /\ Proceeds(t, ThreadFrame("call", op, 0, subject, op \in StringCalls,
                               flags, matchers[t]),
                matchers[t])

\* Init up to its early return: the nil test, the reset of the result
\* fields, the test for the same compiled handle.
InitEnters(t, f, m) ==
    IF regexps[f.r].ptr = 0 THEN Completes(t, f, NoCall(m, TRUE))
    ELSE IF SameHandle(m, regexps[f.r])
    THEN Completes(t, f, NoCall(InitFlags(m), FALSE))
    ELSE Proceeds(t, [f EXCEPT !.pc = "bind"], InitFlags(m))

\* Match up to its call of Exec, and Exec up to its call of exec: the test
\* of the recorded error (Match only), the nil test, the recording of the
\* subject.
CallEnters(t, f, m) ==
    IF f.op \in MatchCalls /\ m.err # NilErr
    THEN Completes(t, f, NoCall(m, FALSE))
    ELSE IF BoundPtr(m) = 0 THEN Completes(t, f, NoCall(m, TRUE))
    ELSE Proceeds(t, [f EXCEPT !.pc = "exec"],
                  SetSubject(m, f.subject, f.bnil, f.op \in StringCalls))

\* The first statements of the method thread t has called.
ThreadEnters(t) ==
    /\ threads[t].pc = "call"
    /\ IF threads[t].op = "Init" THEN InitEnters(t, threads[t], matchers[t])
       ELSE CallEnters(t, threads[t], matchers[t])

\* What Init returns once it has bound Matcher m to a new handle ptr.
Bound(m, ptr) ==
    [m |-> m, ok |-> FALSE, rc |-> 0, panic |-> FALSE,
     calls |-> <<Call("pcre_fullinfo", ptr)>>]

\* The rest of Init: m.re, m.groups (pcre_fullinfo), the offset vector.
ThreadBinds(t) ==
    /\ threads[t].pc = "bind"
    /\ Completes(t, threads[t],
                 Bound(Bind(matchers[t], threads[t].r,
                            Groups(regexps[threads[t].r])),
                       regexps[threads[t].r].ptr))

\* exec has returned e: Exec and ExecString return it, Match and
\* MatchString keep the code in rc.
ExecReturns(t, f, e) ==
    IF e.panic \/ f.op \notin MatchCalls THEN Completes(t, f, e)
    ELSE Proceeds(t, [f EXCEPT !.pc = "collect", !.rc = e.rc,
                               !.calls = e.calls],
                  e.m)

\* Matcher.exec: pcre_exec reads the Regexp's handles and the subject and
\* writes the Matcher's offset vector.
ThreadExecs(t) ==
    /\ threads[t].pc = "exec"
    /\ ExecReturns(t, threads[t],
                   exec(matchers[t], threads[t].subject, threads[t].flags))

\* Match's and MatchString's collection of the code Exec returned.
ThreadCollects(t) ==
    /\ threads[t].pc = "collect"
    /\ Completes(t, threads[t],
                 Collect([m |-> matchers[t], ok |-> FALSE, rc |-> threads[t].rc,
                          panic |-> FALSE, calls |-> threads[t].calls]))

\* Thread t, between calls, reads a group of its Matcher.
ThreadGroup(t, group) ==
    /\ threads[t].pc = "idle"
    /\ Group(t, group)

\* ------------------------------------------------------ specification
\* The patterns compiled in each specification.
LifePatterns == {PatOpt, PatAStar, BadPattern, NulPattern}
MatchPatterns(r) == IF r = 1 THEN {PatOpt} ELSE {PatAStar}
LoopPatterns == {PatB, PatAStar, PatLook, BadPattern}

\* The life cycle of Regexp objects, with Matchers bound to them.
Next ==
    \/ \E r \in RegexpIds, pattern \in LifePatterns : Compile(r, pattern)
    \/ \E r \in RegexpIds, f \in StudyFlags, o \in {"extra", "none", "error"} : Study(r, f, o)
    \/ \E r \in RegexpIds, pattern \in LifePatterns, f \in StudyFlags,
          o \in {"extra", "none", "error"} : CompileJIT(r, pattern, f, o)
    \/ \E r \in RegexpIds : FreeRegexp(r)
    \/ \E r \in RegexpIds : DropRef(r)
    \/ \E r \in RegexpIds : Finalize(r)
    \/ \E mid \in MatcherIds, r \in RegexpIds : MInit(mid, r)

Spec == Init /\ [][Next]_vars

\* Matching with a Matcher over compiled and released Regexps: the first
\* Regexp has two capture groups, the later ones none.
MatcherNext ==
    \/ \E r \in RegexpIds : \E pattern \in MatchPatterns(r) : Compile(r, pattern)
    \/ \E r \in RegexpIds : FreeRegexp(r)
    \/ \E mid \in MatcherIds, r \in RegexpIds : MInit(mid, r)
    \/ \E mid \in MatcherIds, a \in MatchArgs : Match(mid, a[1], FALSE, a[2])
    \/ \E mid \in MatcherIds, a \in MatchArgs : MatchString(mid, a[1], a[2])
    \/ \E mid \in MatcherIds, r \in RegexpIds, a \in ResetArgs :
          Reset(mid, r, a[1], FALSE, a[2])
    \/ \E mid \in MatcherIds, r \in RegexpIds, a \in ResetArgs :
          ResetString(mid, r, a[1], a[2])
    \/ \E mid \in MatcherIds : Extract(mid)
    \/ \E mid \in MatcherIds : ExtractString(mid)

MatcherSpec == Init /\ [][MatcherNext]_vars

\* Matching and the numbered accessors.
AccessNext ==
    \/ \E r \in RegexpIds : \E pattern \in MatchPatterns(r) : Compile(r, pattern)
    \/ \E mid \in MatcherIds, r \in RegexpIds : MInit(mid, r)
    \/ \E mid \in MatcherIds, a \in MatchArgs : Match(mid, a[1], FALSE, a[2])
    \/ \E mid \in MatcherIds, a \in MatchArgs : MatchString(mid, a[1], a[2])
    \/ \E mid \in MatcherIds, group \in GroupNumbers : Present(mid, group)
    \/ \E mid \in MatcherIds, group \in GroupNumbers : Group(mid, group)
    \/ \E mid \in MatcherIds, group \in GroupNumbers : GroupString(mid, group)
    \/ \E mid \in MatcherIds, group \in GroupNumbers : GroupIndices(mid, group)

AccessSpec == Init /\ [][AccessNext]_vars

\* The operations that need the compiled handle, over Regexps that are
\* compiled, rejected by the engine, or released.
HandlePatterns == {PatNamed, BadPattern}
HandleArgs == ArgsOver({<<"a">>, <<"b">>})
HandleNext ==
    \/ \E r \in RegexpIds, pattern \in HandlePatterns : Compile(r, pattern)
    \/ \E r \in RegexpIds : FreeRegexp(r)
    \/ \E r \in RegexpIds, o \in {"extra", "none", "error"} : Study(r, 0, o)
    \/ \E r \in RegexpIds : RegexpGroups(r)
    \/ \E mid \in MatcherIds, r \in RegexpIds : MInit(mid, r)
    \/ \E mid \in MatcherIds, a \in HandleArgs : Match(mid, a[1], FALSE, a[2])
    \/ \E mid \in MatcherIds, a \in HandleArgs : MatchString(mid, a[1], a[2])
    \/ \E mid \in MatcherIds, a \in HandleArgs : Exec(mid, a[1], FALSE, a[2])
    \/ \E mid \in MatcherIds, a \in HandleArgs : ExecString(mid, a[1], a[2])
    \/ \E mid \in MatcherIds, name \in GroupNames : Named(mid, name)
    \/ \E mid \in MatcherIds, name \in GroupNames : NamedString(mid, name)
    \/ \E mid \in MatcherIds, name \in GroupNames : NamedPresent(mid, name)

HandleSpec == Init /\ [][HandleNext]_vars

\* Two threads, each with its own Matcher, over one Regexp they share,
\* which has two capture groups.
SharedPatterns == {PatOpt}
SharedArgs == {a \in HandleArgs : a[2] \in {0, 3}}
SharedGroups == {1}
SharedNext ==
    \/ \E pattern \in SharedPatterns : Compile(1, pattern)
    \/ \E t \in SharedMatcherIds, r \in RegexpIds : ThreadInit(t, r)
    \/ \E t \in SharedMatcherIds, a \in SharedArgs :
          ThreadCall(t, "Match", a[1], a[2])
    \/ \E t \in SharedMatcherIds, a \in SharedArgs :
          ThreadCall(t, "Exec", a[1], a[2])
    \/ \E t \in SharedMatcherIds : ThreadEnters(t)
    \/ \E t \in SharedMatcherIds : ThreadBinds(t)
    \/ \E t \in SharedMatcherIds : ThreadExecs(t)
    \/ \E t \in SharedMatcherIds : ThreadCollects(t)
    \/ \E t \in SharedMatcherIds, group \in SharedGroups : ThreadGroup(t, group)

SharedSpec == Init /\ [][SharedNext]_vars

\* One thread, one Matcher: the calls of a sequential program, statement
\* group by statement group, over Regexps that are compiled and released
\* between the calls.
CallArgs == HandleArgs
ThreadsIdle == \A t \in MatcherIds : threads[t].pc = "idle"
CallNext ==
    \/ \E r \in RegexpIds : \E pattern \in MatchPatterns(r) :
          ThreadsIdle /\ Compile(r, pattern)
    \/ \E r \in RegexpIds : ThreadsIdle /\ FreeRegexp(r)
    \/ \E t \in MatcherIds, r \in RegexpIds : ThreadInit(t, r)
    \/ \E t \in MatcherIds, a \in CallArgs : ThreadCall(t, "Match", a[1], a[2])
    \/ \E t \in MatcherIds, a \in CallArgs :
          ThreadCall(t, "MatchString", a[1], a[2])
    \/ \E t \in MatcherIds, a \in CallArgs : ThreadCall(t, "Exec", a[1], a[2])
    \/ \E t \in MatcherIds, a \in CallArgs :
          ThreadCall(t, "ExecString", a[1], a[2])
    \/ \E t \in MatcherIds : ThreadEnters(t)
    \/ \E t \in MatcherIds : ThreadBinds(t)
    \/ \E t \in MatcherIds : ThreadExecs(t)
    \/ \E t \in MatcherIds : ThreadCollects(t)

CallSpec == Init /\ [][CallNext]_vars

\* A sequential program over Regexps that are compiled, studied, released
\* and reclaimed, with a Matcher, the name lookup and the convenience
\* loops.
SafetyPatterns == {PatNamed, BadPattern}
SafetyArgs == {a \in HandleArgs : a[2] \in {0, 3}}
SafetyLoopArgs == {<< <<"a", "b">>, 0 >>}
SafetyNext ==
    \/ \E r \in RegexpIds, pattern \in SafetyPatterns : Compile(r, pattern)
    \/ \E r \in RegexpIds, outcome \in {"extra", "none", "error"} :
          Study(r, 0, outcome)
    \/ \E r \in RegexpIds : FreeRegexp(r)
    \/ \E r \in RegexpIds : DropRef(r)
    \/ \E r \in RegexpIds : Finalize(r)
    \/ \E r \in RegexpIds : RegexpGroups(r)
    \/ \E mid \in MatcherIds, r \in RegexpIds : MInit(mid, r)
    \/ \E mid \in MatcherIds, r \in RegexpIds, a \in SafetyArgs :
          Reset(mid, r, a[1], FALSE, a[2])
    \/ \E mid \in MatcherIds, a \in SafetyArgs : Match(mid, a[1], FALSE, a[2])
    \/ \E mid \in MatcherIds, a \in SafetyArgs : Exec(mid, a[1], FALSE, a[2])
    \/ \E mid \in MatcherIds, name \in GroupNames : Named(mid, name)
    \/ \E r \in RegexpIds, a \in SafetyLoopArgs, repl \in Repls :
          ReplaceAllCall(r, a[1], repl, a[2])
    \/ ReplaceAllStep
    \/ ReplaceAllReturn
    \/ \E r \in RegexpIds, a \in SafetyLoopArgs : FindAllCall(r, a[1], a[2])
    \/ FindAllStep
    \/ FindAllReturn

SafetySpec == Init /\ [][SafetyNext]_vars

\* The convenience loops over one Regexp, compiled or rejected.
LoopNext ==
    \/ \E pattern \in LoopPatterns : Compile(1, pattern)
    \/ \E a \in ReplaceAllArgs, repl \in Repls : ReplaceAllCall(1, a[1], repl, a[2])
    \/ ReplaceAllStep
    \/ ReplaceAllReturn
    \/ \E a \in FindAllArgs : FindAllCall(1, a[1], a[2])
    \/ FindAllStep
    \/ FindAllReturn

LoopSpec == Init /\ [][LoopNext]_vars

\* A call that has started keeps running: the loops' steps are taken.
FairLoopSpec ==
    /\ LoopSpec
    /\ WF_vars(ReplaceAllStep) /\ WF_vars(ReplaceAllReturn)
    /\ WF_vars(FindAllStep) /\ WF_vars(FindAllReturn)

\* ------------------------------------------------------------ properties
MatchOps == {"Match", "MatchString"}
ResetOps == {"Reset", "ResetString"}
ExtractOps == {"Extract", "ExtractString"}

\* The Matcher the last call was made on.
LastMatcher == matchers[last.mid]

\* C1: sticky error.  Once a Matcher holds an error, a Match or MatchString
\* on it returns false, makes no engine call and leaves the error as it is;
\* only Init, Reset or ResetString change the recorded error; the Match that
\* follows an Init, and the Match inside a Reset, call pcre_exec.
C1_StickyError ==
    [][\A mid \in MatcherIds :
          /\ (matchers[mid].err # NilErr /\ last'.mid = mid /\ last'.op \in MatchOps)
                => /\ ~last'.ok /\ ~last'.panic
                   /\ last'.calls = <<>>
                   /\ matchers'[mid].err = matchers[mid].err
          /\ (matchers[mid].err # NilErr /\ matchers'[mid].err # matchers[mid].err)
                => (last'.mid = mid /\ last'.op \in ResetOps \cup {"Init"})
          /\ (/\ last.op = "Init" /\ ~last.panic /\ last.mid = mid
              /\ last'.mid = mid /\ last'.op \in MatchOps)
                => last'.calls = <<Call("pcre_exec", PtrHandle(last.id))>>
          /\ (last'.mid = mid /\ last'.op \in ResetOps /\ ~last'.panic)
                => last'.calls[Len(last'.calls)] = Call("pcre_exec", PtrHandle(last'.id))
      ]_vars

\* A Match on a Matcher that holds an error has returned.
C1_Witness ==
    /\ last.op \in MatchOps
    /\ LastMatcher.err # NilErr
    /\ last.calls = <<>> /\ ~last.ok /\ ~last.panic

\* C2: release is idempotent.  No native handle is passed to the engine's
\* free function more than once, and a Regexp on which FreeRegexp has run
\* holds neither handle and has no finalizer.
C2_ReleaseOnce ==
    /\ \A h \in Handles : heap[h].frees <= 1
    /\ \A r \in RegexpIds :
          regexps[r].released =>
             regexps[r].ptr = 0 /\ regexps[r].extra = 0 /\ ~regexps[r].fin

\* A second FreeRegexp on a compiled and studied Regexp has returned.
C2_Witness ==
    /\ last.op = "FreeRegexp"
    /\ last.calls = <<>>
    /\ heap[PtrHandle(last.id)].frees = 1
    /\ heap[ExtraHandle(last.id)].frees = 1

\* C3 as stated: after a Study that returned no error, a Study on the same
\* Regexp returns the "already been optimized" error without calling the
\* engine and leaves the optimization handle as it is.
C3_OneShotAfterNoError ==
    [][(last.op = "Study" /\ last.ok /\ last'.op = "Study" /\ last'.id = last.id)
          => /\ last'.err = Err("already been optimized")
             /\ last'.calls = <<>>
             /\ regexps'[last.id].extra = regexps[last.id].extra
      ]_vars

\* C3, amended: once a Regexp holds an optimization handle, a Study on it
\* returns the "already been optimized" error without calling the engine
\* and leaves the handle as it is.
C3_OneShotAfterHandle ==
    [][\A r \in RegexpIds :
          (regexps[r].extra # 0 /\ last'.op = "Study" /\ last'.id = r)
             => /\ last'.err = Err("already been optimized")
                /\ last'.calls = <<>>
                /\ regexps'[r].extra = regexps[r].extra
      ]_vars

\* A Study on a Regexp that holds an optimization handle has returned.
C3_Witness ==
    /\ last.op = "Study"
    /\ regexps[last.id].extra # 0
    /\ last.err = Err("already been optimized")

\* C4: a bound Matcher's offset vector has at least 3 * (1 + G) slots, G the
\* capture count of the pattern it is bound to (which is the cached count),
\* and no call shortens the vector.
C4_OvectorLength ==
    [][\A mid \in MatcherIds :
          /\ matchers'[mid].re # 0 =>
                /\ matchers'[mid].groups =
                      CaptureCount(heap'[PtrHandle(matchers'[mid].re)].pat)
                /\ Len(matchers'[mid].ovector) >= 3 * (1 + matchers'[mid].groups)
          /\ Len(matchers'[mid].ovector) >= Len(matchers[mid].ovector)
      ]_vars

\* A Matcher bound to a pattern of two groups has been rebound to a pattern
\* of none and has matched with it.
C4_Witness ==
    /\ last.op \in MatchOps /\ last.ok
    /\ LastMatcher.groups = 0
    /\ Len(LastMatcher.ovector) = 9

\* C5: classification of the result code.  A Match or MatchString that
\* called the engine and got the code rc returns true without an error
\* exactly when rc >= 0 or rc is the partial-match code, false without an
\* error exactly when rc is the no-match code, false with the "invalid
\* option flag" error exactly when rc is the bad-option code, and false
\* with an "unexpected return code" error carrying rc for any other negative
\* rc; Partial() is then true exactly when rc is the partial-match code.
C5_Classification ==
    (last.op \in MatchOps /\ ~last.panic /\ last.calls # <<>>) =>
       /\ LastMatcher.matches = last.ok
       /\ (last.ok /\ LastMatcher.err = NilErr)
             <=> (last.rc >= 0 \/ last.rc = ERROR_PARTIAL)
       /\ (~last.ok /\ LastMatcher.err = NilErr)
             <=> (last.rc = ERROR_NOMATCH)
       /\ (~last.ok /\ LastMatcher.err = Err("invalid option flag"))
             <=> (last.rc = ERROR_BADOPTION)
       /\ (last.rc < 0 /\ last.rc \notin {ERROR_PARTIAL, ERROR_NOMATCH, ERROR_BADOPTION})
             => /\ ~last.ok
                /\ LastMatcher.err = [kind |-> "unexpected return code", rc |-> last.rc]
       /\ LastMatcher.partial <=> (last.rc = ERROR_PARTIAL)

\* A Match to which the engine answered with the partial-match code has
\* returned true.
C5_Witness ==
    /\ last.op \in MatchOps
    /\ last.rc = ERROR_PARTIAL
    /\ last.ok /\ LastMatcher.partial /\ LastMatcher.err = NilErr

\* C6: after Init has returned, Matches() is false, Partial() is false and
\* Err() is nil.
C6_InitResetsFlags ==
    (last.op = "Init" /\ ~last.panic) =>
       /\ ~LastMatcher.matches
       /\ ~LastMatcher.partial
       /\ LastMatcher.err = NilErr

\* C7: ReplaceAll terminates: a call that has entered its loop returns.
C7_ReplaceAllTerminates == (ra.pc = "loop") ~> (ra.pc = "idle")

\* C8: FindAll terminates.  Every iteration of the loop advances the offset
\* by at least 1; the loop goes on only while the offset is below the
\* subject's length (or no iteration has been made) and the last attempt
\* matched; the matches reported number at most max(1, len(subject)); and a
\* call that has entered its loop returns.
C8_FindAllTerminates ==
    /\ [][(fa.pc = "loop" /\ fa'.pc = "loop") => fa'.offset >= fa.offset + 1]_vars
    /\ [](fa.pc = "loop" =>
             /\ (fa.m.matches /\ ~fa.brk)
                   => (fa.offset = 0 \/ fa.offset < Len(fa.subject))
             /\ Len(fa.matches) <= (IF Len(fa.subject) = 0 THEN 1 ELSE Len(fa.subject)))
    /\ (fa.pc = "loop") ~> (fa.pc = "idle")

\* A FindAll that advanced past a zero-width match and reported another
\* match has returned.
C8_Witness ==
    /\ last.op = "FindAll" /\ ~last.panic
    /\ Len(last.out) >= 2
    /\ \E i \in 1..Len(last.out) : last.out[i].Loc[1] = last.out[i].Loc[2]

\* The subject an accessor slices: the bytes for Extract, the string for
\* ExtractString.
LastSubject ==
    IF last.op = "Extract" THEN LastMatcher.subjectb ELSE LastMatcher.subjects

\* The last match recorded the kind of subject the accessor slices.
SubjectKindFits == (last.op = "Extract") <=> ~LastMatcher.bnil

\* C9: an Extract or ExtractString that returns after a successful match
\* yields groups + 1 entries, entry 0 the whole match, the subject from
\* ovector[0] to ovector[1], and entry i the capture group i; after a match
\* that did not succeed it yields nil.
C9_ExtractEntries ==
    (last.op \in ExtractOps /\ ~last.panic /\ SubjectKindFits) =>
       IF LastMatcher.matches
       THEN /\ ~last.isnil
            /\ Len(last.out) = LastMatcher.groups + 1
            /\ last.out[1].val =
                  Slice(LastSubject, Ov(LastMatcher, 0), Ov(LastMatcher, 1))
            /\ \A i \in 1..LastMatcher.groups :
                  last.out[i + 1].val =
                     Slice(LastSubject, Ov(LastMatcher, 2 * i), Ov(LastMatcher, 2 * i + 1))
       ELSE last.isnil

\* C10: an Extract or ExtractString after a successful match in which a
\* group did not take part returns, with groups + 1 entries, the entry of
\* every such group absent.
C10_UnsetGroupAbsent ==
    (/\ last.op \in ExtractOps
     /\ LastMatcher.matches
     /\ \E i \in 1..LastMatcher.groups : Ov(LastMatcher, 2 * i) < 0) =>
       /\ ~last.panic
       /\ Len(last.out) = LastMatcher.groups + 1
       /\ \A i \in 1..LastMatcher.groups :
             Ov(LastMatcher, 2 * i) < 0 => last.out[i + 1].nil

GroupOps == {"Group", "GroupString", "GroupIndices"}

\* The offsets of the group the last accessor was asked for.
LastStart == Ov(LastMatcher, 2 * last.rc)
LastEnd == Ov(LastMatcher, 2 * last.rc + 1)

\* The subject of the last match, bytes or string.
RecordedSubject ==
    IF LastMatcher.bnil THEN LastMatcher.subjects ELSE LastMatcher.subjectb

\* The last call was a numbered accessor on a group of the bound pattern,
\* after a successful complete match (a partial match reports the offsets
\* of the whole match only).
AccessorAfterMatch ==
    /\ LastMatcher.matches /\ ~LastMatcher.partial
    /\ last.rc \in 0..LastMatcher.groups

\* C11 as stated: after a successful match, a numbered accessor on a group
\* that is present returns the slice of the recorded subject between the
\* group's offsets (GroupIndices: the offsets), and Group, GroupString and
\* GroupIndices each return, for a group that is not present, an absent
\* value, which a present group that matched the empty string never gets.
C11_AbsentDistinct ==
    (last.op \in GroupOps /\ AccessorAfterMatch) =>
       /\ ~last.panic
       /\ LastStart >= 0 =>
             /\ ~last.isnil
             /\ last.out = IF last.op = "GroupIndices"
                           THEN <<LastStart, LastEnd>>
                           ELSE Slice(RecordedSubject, LastStart, LastEnd)
       /\ LastStart < 0 => last.isnil

\* C11, amended: as above for a group that is present, and Present is true
\* exactly for those; for a group that is not present Group and GroupIndices
\* return nil, while GroupString returns the empty string, the value it
\* returns for a present group that matched the empty string.
C11_AccessorsAgree ==
    (last.op \in GroupOps \cup {"Present"} /\ AccessorAfterMatch) =>
       /\ ~last.panic
       /\ last.op = "Present" => (last.ok <=> LastStart >= 0)
       /\ (last.op \in GroupOps /\ LastStart >= 0) =>
             /\ ~last.isnil
             /\ last.out = IF last.op = "GroupIndices"
                           THEN <<LastStart, LastEnd>>
                           ELSE Slice(RecordedSubject, LastStart, LastEnd)
       /\ (last.op \in {"Group", "GroupIndices"} /\ LastStart < 0) => last.isnil
       /\ (last.op = "GroupString" /\ LastStart < 0) =>
             (~last.isnil /\ last.out = <<>>)

\* GroupString has returned for a group that is not present.
C11_Witness ==
    /\ last.op = "GroupString" /\ AccessorAfterMatch
    /\ LastStart < 0
    /\ ~last.isnil /\ last.out = <<>>

\* s with every "b" replaced by repl.
RECURSIVE ReplaceEach(_, _)
ReplaceEach(s, repl) ==
    IF s = <<>> THEN <<>>
    ELSE (IF Head(s) = "b" THEN repl ELSE <<Head(s)>>)
         \o ReplaceEach(Tail(s), repl)

\* The pattern of the running ReplaceAll call.
ReplaceAllPattern == heap[PtrHandle(ra.re)].pat

\* C12: the bytes ReplaceAll returns.  With the pattern b (every match one
\* byte "b"), a call returns the bytes it was handed with every "b" replaced
\* by repl and every other byte kept, once and in order; a call whose first
\* attempt finds no match returns the bytes it was handed.
C12_ReplaceAllResult ==
    [][(ra.pc = "loop" /\ ra'.pc = "idle" /\ ~last'.panic /\ ra.flags = 0) =>
          /\ ReplaceAllPattern = PatB
                => last'.out = ReplaceEach(ra.orig, ra.repl)
          /\ PatternMatch(ReplaceAllPattern, ra.orig).rc = ERROR_NOMATCH
                => last'.out = ra.orig
      ]_vars

\* ReplaceAll of b by "-" in "abab" has returned "a-a-", after three
\* attempts.
C12_Witness ==
    /\ last.op = "ReplaceAll" /\ ~last.panic
    /\ last.out = <<"a", "-", "a", "-">>
    /\ last.rc = 3

\* The pattern of the running FindAll call.
FindAllPattern == heap[PtrHandle(fa.re)].pat

\* The suffix of the subject the last attempt of FindAll matched.
Suffix == Slice(fa.subject, fa.offset, Len(fa.subject))

\* The match the running FindAll call reported last.
Reported == fa'.matches[Len(fa'.matches)]

\* C13: FindAll's translation of indices.  An iteration does not panic and
\* reports one more match, whose Loc is the engine's (start, end) in the
\* suffix plus the offset before the attempt, with
\* 0 <= Loc[0] <= Loc[1] <= len(subject), and whose Finding is
\* subject[Loc[0]:Loc[1]], the bytes the engine matched in the suffix; and
\* FindAll of a* over "baaab" returns matches that start at 0, 1 and 4.
C13_FindAllTranslation ==
    [][/\ (fa.pc = "loop" /\ fa.m.matches /\ ~fa.brk) =>
             /\ ~last'.panic /\ fa'.pc = "loop"
             /\ Len(fa'.matches) = Len(fa.matches) + 1
             /\ SubSeq(fa'.matches, 1, Len(fa.matches)) = fa.matches
             /\ Reported.Loc = <<Ov(fa.m, 0) + fa.offset, Ov(fa.m, 1) + fa.offset>>
             /\ 0 <= Reported.Loc[1] /\ Reported.Loc[1] <= Reported.Loc[2]
             /\ Reported.Loc[2] <= Len(fa.subject)
             /\ Reported.Finding = Slice(fa.subject, Reported.Loc[1], Reported.Loc[2])
             /\ Reported.Finding = Slice(Suffix, Ov(fa.m, 0), Ov(fa.m, 1))
       /\ (/\ fa.pc = "loop" /\ fa'.pc = "idle" /\ ~last'.panic
           /\ fa.subject = ScenarioSubject /\ fa.flags = 0
           /\ FindAllPattern = PatAStar) =>
             [i \in 1..Len(last'.out) |-> last'.out[i].Loc[1]] = <<0, 1, 4>>
      ]_vars

\* FindAll of a* over "baaab" has returned "" at 0, "aaa" at 1 and "" at 4.
C13_Witness ==
    /\ last.op = "FindAll" /\ ~last.panic
    /\ last.out = << [Finding |-> <<>>, Loc |-> <<0, 0>>],
                     [Finding |-> <<"a", "a", "a">>, Loc |-> <<1, 4>>],
                     [Finding |-> <<>>, Loc |-> <<4, 4>>] >>

\* C14: the matches FindAll returns do not overlap: each one starts at or
\* after the end of the one before it, and is at another location.
C14_NonOverlapping ==
    (last.op = "FindAll" /\ ~last.panic) =>
       \A i \in 1..(Len(last.out) - 1) :
          /\ last.out[i + 1].Loc[1] >= last.out[i].Loc[2]
          /\ last.out[i + 1].Loc # last.out[i].Loc

\* The code rc is an error: neither a match, nor partial, nor no match.
ErrorCode(rc) == rc < 0 /\ rc \notin {ERROR_PARTIAL, ERROR_NOMATCH}

\* The error the classification of rc records.
ErrorOf(rc) ==
    IF ~ErrorCode(rc) THEN NilErr
    ELSE IF rc = ERROR_BADOPTION THEN Err("invalid option flag")
    ELSE [kind |-> "unexpected return code", rc |-> rc]

\* C15: ReplaceAll and FindAll return the error of the last match attempt
\* with what they have accumulated.  The error returned is the one the
\* Matcher holds, the one of the last attempt's code: nil after a no-match
\* code and after FindAll's break, non-nil exactly after an error code; and
\* with "ba" under a match limit, where b is matched and the second attempt
\* fails, ReplaceAll returns repl and the rest "a", FindAll the match of b.
C15_LoopError ==
    [][/\ (ra.pc = "loop" /\ ra'.pc = "idle" /\ ~last'.panic) =>
             /\ last'.err = ra.m.err
             /\ last'.err = ErrorOf(ra.rc)
             /\ (ra.orig = <<"b", "a">> /\ ra.flags = -ERROR_MATCHLIMIT
                   /\ ReplaceAllPattern = PatB)
                   => /\ last'.out = ra.repl \o <<"a">>
                      /\ last'.err # NilErr
       /\ (fa.pc = "loop" /\ fa'.pc = "idle" /\ ~last'.panic) =>
             /\ last'.err = fa.m.err
             /\ last'.err = ErrorOf(fa.rc)
             /\ fa.brk => last'.err = NilErr
             /\ (fa.subject = <<"b", "a">> /\ fa.flags = -ERROR_MATCHLIMIT
                   /\ FindAllPattern = PatB)
                   => /\ last'.out = <<[Finding |-> <<"b">>, Loc |-> <<0, 1>>]>>
                      /\ last'.err # NilErr
      ]_vars

\* ReplaceAll has returned an error together with a replacement made before
\* the failing attempt and the rest of the subject.
C15_Witness ==
    /\ last.op = "ReplaceAll" /\ ~last.panic
    /\ last.err = [kind |-> "unexpected return code", rc |-> ERROR_MATCHLIMIT]
    /\ last.out = <<"-", "a">>

\* The engine calls of the last call that went to fn.
CallsTo(fn) == {i \in 1..Len(last.calls) : last.calls[i].fn = fn}

\* C16: CompileJIT is Compile, then Study.  When Compile fails, pcre_study
\* is not called and Compile's error is returned; when it succeeds,
\* pcre_study is called once, on the compiled handle, with the flags given
\* (the default JIT flag for 0), and its error, if any, is returned with a
\* Regexp that is compiled, held and has its finalizer.
C16_CompileThenStudy ==
    (last.op = "CompileJIT") =>
       /\ ~last.panic
       /\ regexps[last.id].ptr = 0 =>
             /\ CallsTo("pcre_study") = {}
             /\ last.err \in {Err("compile"), Err("NUL byte in pattern")}
             /\ regexps[last.id].extra = 0
       /\ regexps[last.id].ptr # 0 =>
             /\ last.calls = <<Call("pcre_compile", PtrHandle(last.id)),
                               Call("pcre_study", PtrHandle(last.id))>>
             /\ last.rc = (IF last.arg = 0 THEN STUDY_JIT_COMPILE ELSE last.arg)
             /\ last.err \in {NilErr, Err("study")}
             /\ last.err = NilErr <=> last.ok
             /\ regexps[last.id].st = "live" /\ regexps[last.id].held
             /\ regexps[last.id].fin
             /\ heap[PtrHandle(last.id)].st = "live"

\* CompileJIT has returned a compiled Regexp with the error of Study.
C16_Witness ==
    /\ last.op = "CompileJIT"
    /\ last.err = Err("study")
    /\ regexps[last.id].ptr # 0
    /\ last.arg = 0

NamedOps == {"Named", "NamedString", "NamedPresent"}
RegexpOps == {"Groups", "Study", "Init"}
HandleOps == RegexpOps \cup MatchOps \cup NamedOps \cup {"Exec", "ExecString"}

\* The last call was of an operation that needs the compiled handle, on a
\* Regexp that is released or was never compiled, or on a Matcher whose
\* Regexp is absent or released.
HandleAbsent ==
    /\ last.op \in HandleOps
    /\ IF last.op \in RegexpOps THEN regexps[last.id].ptr = 0
       ELSE BoundPtr(LastMatcher) = 0

\* C17 as stated: every operation that needs the compiled handle panics
\* when the handle is absent, and calls no engine function.
C17_AlwaysPanics ==
    HandleAbsent => (last.panic /\ last.calls = <<>>)

\* C17, amended: without the compiled handle, Regexp.Groups, Init, Exec and
\* ExecString panic without an engine call; Match and MatchString panic
\* unless the Matcher holds an error, and then return false, in both cases
\* without an engine call; Study does not panic: it hands the nil handle to
\* pcre_study and returns the engine's error; the named accessors do not
\* panic: they return the "uninitialized" error with an empty value,
\* without an engine call.
C17_PanicOrError ==
    HandleAbsent =>
       /\ last.op \in {"Groups", "Init", "Exec", "ExecString"}
             => (last.panic /\ last.calls = <<>>)
       /\ last.op \in MatchOps =>
             /\ last.calls = <<>> /\ ~last.ok
             /\ last.panic <=> (LastMatcher.err = NilErr)
       /\ last.op = "Study" =>
             /\ ~last.panic
             /\ last.calls = <<Call("pcre_study", 0)>>
             /\ last.err = Err("study")
             /\ regexps[last.id].extra = 0
       /\ last.op \in NamedOps =>
             /\ ~last.panic
             /\ last.calls = <<>>
             /\ last.err = Err("uninitialized")
             /\ ~last.ok /\ ~last.isnil /\ last.out = <<>>

\* Named has returned on a Matcher whose Regexp has been released.
C17_Witness ==
    /\ last.op = "Named"
    /\ LastMatcher.re # 0
    /\ regexps[LastMatcher.re].released
    /\ last.err = Err("uninitialized") /\ ~last.panic

\* What the call of frame f returns, and the Matcher it leaves, when it runs
\* from entry to return with nothing in between.
Alone(f) ==
    IF f.op = "Init"
    THEN [m |-> MatcherInit(f.m0, f.r).m, ok |-> FALSE, rc |-> 0,
          panic |-> MatcherInit(f.m0, f.r).panic,
          calls |-> MatcherInit(f.m0, f.r).calls]
    ELSE IF f.op \in MatchCalls
    THEN MatcherMatch(f.m0, f.subject, f.bnil, f.op \in StringCalls, f.flags)
    ELSE MatcherExec(f.m0, f.subject, f.bnil, f.op \in StringCalls, f.flags)

\* Thread t takes a step of a call, or reads a group between calls.
ThreadStepped(t) ==
    \/ threads'[t] # threads[t]
    \/ last' # last /\ last'.mid = t /\ last'.op = "Group"

\* Thread t's call returns in this step.
ThreadReturned(t) == threads[t].pc # "idle" /\ threads'[t].pc = "idle"

\* C18: with two Matchers on one Regexp, each driven by its own thread,
\* under every interleaving of the threads' steps: no step of a Matcher
\* operation writes the Regexp or the engine's allocations; a step of one
\* thread leaves the other thread's Matcher (offset vector, flags, subject,
\* error) as it was; and a call returns what it returns when run alone on
\* the Matcher it found, and leaves the Matcher that run leaves; a group
\* read returns the group of the thread's own Matcher.
C18_SharedReadOnly ==
    [][\A t \in SharedMatcherIds :
          ThreadStepped(t) =>
             /\ regexps' = regexps /\ heap' = heap
             /\ \A u \in SharedMatcherIds \ {t} :
                   matchers'[u] = matchers[u] /\ threads'[u] = threads[u]
             /\ ThreadReturned(t) =>
                   /\ matchers'[t] = Alone(threads[t]).m
                   /\ last'.op = threads[t].op /\ last'.mid = t
                   /\ last'.ok = Alone(threads[t]).ok
                   /\ last'.rc = Alone(threads[t]).rc
                   /\ last'.panic = Alone(threads[t]).panic
                   /\ last'.calls = Alone(threads[t]).calls
             /\ threads'[t] = threads[t] =>
                   /\ matchers' = matchers
                   /\ last'.panic = MatcherGroup(matchers[t], last'.rc).panic
                   /\ last'.isnil = MatcherGroup(matchers[t], last'.rc).isnil
                   /\ last'.out = MatcherGroup(matchers[t], last'.rc).out]_vars

\* Thread m2's Match on the shared Regexp has returned true while thread
\* m1 stands between pcre_exec and the collection of its own Match, whose
\* engine call has failed.
C18_Witness ==
    /\ matchers["m1"].re = 1 /\ matchers["m2"].re = 1
    /\ threads["m1"].pc = "collect" /\ threads["m1"].rc = ERROR_BADOPTION
    /\ last.op = "Match" /\ last.mid = "m2" /\ last.ok
    /\ matchers["m2"].matches /\ ~matchers["m1"].matches

\* Thread t's Match or MatchString returns (or panics) in this step.
MatchReturned(t) == ThreadReturned(t) /\ threads[t].op \in MatchCalls

\* The same call once more, on the Matcher the call has left.
Repeated(t) ==
    MatcherMatch(matchers'[t], threads[t].subject, threads[t].bnil,
                 threads[t].op \in StringCalls, threads[t].flags)

\* C19: when Match or MatchString returns, the same call with the same
\* subject and flags on the Matcher it has left returns the same boolean and
\* leaves Matches(), Partial() and Err() as the first call left them, also
\* when the first call recorded an error; a call that panicked panics again.
C19_RepeatedMatch ==
    [][\A t \in MatcherIds :
          MatchReturned(t) =>
             /\ Repeated(t).panic = last'.panic
             /\ Repeated(t).ok = last'.ok
             /\ Repeated(t).m.matches = matchers'[t].matches
             /\ Repeated(t).m.partial = matchers'[t].partial
             /\ Repeated(t).m.err = matchers'[t].err]_vars

\* Match has returned false with an error recorded by this very call.
C19_Witness ==
    /\ last.op = "Match" /\ ~last.ok /\ ~last.panic
    /\ last.calls = <<Call("pcre_exec", BoundPtr(LastMatcher))>>
    /\ LastMatcher.err = Err("invalid option flag")

\* Thread t's Exec or ExecString returns from the engine in this step.
ExecReturned(t) ==
    /\ ThreadReturned(t)
    /\ threads[t].op \in {"Exec", "ExecString"}
    /\ ~last'.panic

\* The engine's answer to the call of frame f.
Answer(f) ==
    pcre_exec(heap[BoundPtr(f.m0)].pat, f.subject, f.flags, f.m0.ovector)

\* C20: Exec and ExecString return the engine's result code as it is and
\* leave the Matcher's success flag, partial flag and recorded error (and
\* its binding) as they were; they record the subject in exactly one of the
\* two subject fields (bytes for Exec, string for ExecString) and clear the
\* other; the offset vector is the one the engine leaves; and the engine is
\* called once, whether or not an error is recorded.
C20_ExecIsRaw ==
    [][\A t \in MatcherIds :
          ExecReturned(t) =>
             /\ last'.rc = Answer(threads[t]).rc
             /\ last'.calls = <<Call("pcre_exec", BoundPtr(threads[t].m0))>>
             /\ matchers'[t].matches = threads[t].m0.matches
             /\ matchers'[t].partial = threads[t].m0.partial
             /\ matchers'[t].err = threads[t].m0.err
             /\ matchers'[t].re = threads[t].m0.re
             /\ matchers'[t].groups = threads[t].m0.groups
             /\ matchers'[t].ovector = Answer(threads[t]).ovector
             /\ IF threads[t].op = "Exec"
                THEN /\ matchers'[t].subjectb = threads[t].subject
                     /\ ~matchers'[t].bnil
                     /\ matchers'[t].subjects = <<>>
                ELSE /\ matchers'[t].subjects = threads[t].subject
                     /\ matchers'[t].subjectb = <<>>
                     /\ matchers'[t].bnil]_vars

\* ExecString has returned the code of a match on a Matcher that holds an
\* error and whose success flag is off.
C20_Witness ==
    /\ last.op = "ExecString" /\ last.rc > 0
    /\ last.calls # <<>>
    /\ LastMatcher.err = Err("invalid option flag")
    /\ ~LastMatcher.matches
    /\ LastMatcher.subjects = <<"a">> /\ LastMatcher.bnil

\* Group i's slots of Matcher m lie within the subject m records.
SlotsWithinSubject(m, i) ==
    Ov(m, 2 * i) >= 0 =>
       /\ Ov(m, 2 * i) <= Ov(m, 2 * i + 1)
       /\ Ov(m, 2 * i + 1) <= Len(GroupSubject(m))

\* C21: in every state reached by Init, Match, MatchString, Exec and
\* ExecString calls, every group 0..Groups() of a bound Matcher whose start
\* slot is not negative has 0 <= start <= end <= length of the recorded
\* subject, so no accessor slices outside the recorded subject or returns
\* captures of an earlier subject, also after a no-match on a shorter one.
C21_SlotsWithinSubject ==
    \A mid \in MatcherIds :
       BoundPtr(matchers[mid]) # 0 =>
          \A i \in 0..matchers[mid].groups :
             SlotsWithinSubject(matchers[mid], i)

\* The engine functions that are handed a handle (pcre_compile makes one).
HandleTakers ==
    {"pcre_exec", "pcre_fullinfo", "pcre_get_stringnumber", "pcre_study",
     "pcre_free", "pcre_free_study"}

\* Engine call c is handed nil or a handle that is allocated and not freed.
HandleLive(c) == c.h # 0 => heap[c.h].st = "live"

\* C22: no engine function that takes a compiled or study handle (exec,
\* fullinfo, get_stringnumber, study, free, free_study) is called with a
\* handle that has been freed: every handle handed to the engine by a call
\* is live in the state the call starts from.
C22_NoUseAfterFree ==
    [][last' # last =>
          \A i \in DOMAIN last'.calls :
             last'.calls[i].fn \in HandleTakers => HandleLive(last'.calls[i])]_vars

\* Exec has panicked, without an engine call, on a Matcher bound to a
\* Regexp whose compiled handle has been freed once.
C22_Witness ==
    /\ last.op = "Exec" /\ last.panic /\ last.calls = <<>>
    /\ LastMatcher.re # 0
    /\ heap[PtrHandle(LastMatcher.re)].st = "freed"
    /\ heap[PtrHandle(LastMatcher.re)].frees = 1

====
